---- MODULE Spec2Model ----
(***************************************************************************)
(* A model of datauri.py: parse(), discover() and build() for RFC 2397     *)
(* "data:" URIs.                                                           *)
(*                                                                         *)
(* A Python str is a sequence of code points (naturals), a bytes object a  *)
(* sequence of naturals in 0..255.  The library functions the source calls *)
(* (str.partition, base64.b64decode, urllib.parse.unquote_to_bytes,        *)
(* re.finditer, base64.b64encode) are computed as CPython 3.11 computes    *)
(* them.                                                                   *)
(***************************************************************************)
EXTENDS Integers, Sequences, FiniteSets, TLC

VARIABLES pc, uri, result, fp, built, s, gen, out

vars == <<pc, uri, result, fp, built, s, gen, out>>

(***************************************************************************)
(* Characters and strings                                                  *)
(***************************************************************************)

\* The printable ASCII characters, code points 32..126, in order (the grave
\* accent, which a TLA+ string cannot hold, is written by its code point).
Chr ==
  << " ", "!", "\"", "#", "$", "%", "&", "'", "(", ")", "*", "+", ",", "-",
     ".", "/", "0", "1", "2", "3", "4", "5", "6", "7", "8", "9", ":", ";",
     "<", "=", ">", "?", "@", "A", "B", "C", "D", "E", "F", "G", "H", "I",
     "J", "K", "L", "M", "N", "O", "P", "Q", "R", "S", "T", "U", "V", "W",
     "X", "Y", "Z", "[", "\\", "]", "^", "_", "U+0060", "a", "b", "c", "d", "e",
     "f", "g", "h", "i", "j", "k", "l", "m", "n", "o", "p", "q", "r", "s",
     "t", "u", "v", "w", "x", "y", "z", "{", "|", "}", "~" >>

\* ord(c) of a printable ASCII character.
Ord(c) == CHOOSE i \in 32..126 : Chr[i - 31] = c

\* The str whose characters are the one-character strings of cs.
Txt(cs) == [i \in 1..Len(cs) |-> Ord(cs[i])]

\* Python's None; no str or bytes value equals it.
None == << -1 >>

\* A non-ASCII character (U+00E9) and a lone surrogate (U+D800): both are
\* legal elements of a Python str.
EAcute == 233
Surrogate == 55296

RECURSIVE Concat(_)
\* ''.join(parts)
Concat(parts) ==
  IF parts = << >> THEN << >> ELSE Head(parts) \o Concat(Tail(parts))

\* s.startswith(p)
StartsWith(str, p) == Len(str) >= Len(p) /\ SubSeq(str, 1, Len(p)) = p

\* s.endswith(p)
EndsWith(str, p) ==
  Len(str) >= Len(p) /\ SubSeq(str, Len(str) - Len(p) + 1, Len(str)) = p

\* s.find(c) for a single character, 1-based; 0 when c does not occur.
Find(str, c) ==
  IF \E i \in 1..Len(str) : str[i] = c
  THEN CHOOSE i \in 1..Len(str) : str[i] = c /\ \A j \in 1..(i - 1) : str[j] # c
  ELSE 0

\* A slip: s.rpartition(c), splitting at the last c.
RPartition(str, c) ==
  LET hits == { i \in 1..Len(str) : str[i] = c }
  IN  IF hits = {} THEN << str, << >> >>
      ELSE LET i == CHOOSE a \in hits : \A b \in hits : a >= b
           IN  << SubSeq(str, 1, i - 1), SubSeq(str, i + 1, Len(str)) >>

\* s.partition(c): the text before the first c and the text after it.
Partition(str, c) ==
  LET i == Find(str, c)
  IN  IF i = 0 THEN << str, << >> >>
      ELSE << SubSeq(str, 1, i - 1), SubSeq(str, i + 1, Len(str)) >>

DataPrefix == Txt(<< "d", "a", "t", "a", ":" >>)
Base64Suffix == Txt(<< ";", "b", "a", "s", "e", "6", "4" >>)
Comma == Ord(",")
Percent == Ord("%")
Pad == Ord("=")

(***************************************************************************)
(* str.encode('utf-8') and str.encode('ascii')                             *)
(***************************************************************************)

IsSurrogate(cp) == cp >= 55296 /\ cp <= 57343

\* The UTF-8 bytes of one code point below U+10000 that is not a surrogate.
Utf8Char(cp) ==
  IF cp < 128 THEN << cp >>
  ELSE IF cp < 2048 THEN << 192 + (cp \div 64), 128 + (cp % 64) >>
  ELSE << 224 + (cp \div 4096), 128 + ((cp \div 64) % 64), 128 + (cp % 64) >>

\* str.encode('utf-8') raises UnicodeEncodeError on a lone surrogate.
Utf8Fails(str) == \E i \in 1..Len(str) : IsSurrogate(str[i])

Utf8Encode(str) == Concat([i \in 1..Len(str) |-> Utf8Char(str[i])])

\* base64._bytes_from_decode_data: s.encode('ascii') raises ValueError
\* ('string argument should contain only ASCII characters').
IsAscii(str) == \A i \in 1..Len(str) : str[i] < 128

(***************************************************************************)
(* urllib.parse.unquote_to_bytes                                           *)
(***************************************************************************)

HexDigits == Txt(<< "0", "1", "2", "3", "4", "5", "6", "7", "8", "9",
                    "a", "b", "c", "d", "e", "f",
                    "A", "B", "C", "D", "E", "F" >>)

IsHex(b) == \E i \in 1..Len(HexDigits) : HexDigits[i] = b

HexVal(b) ==
  LET i == CHOOSE k \in 1..Len(HexDigits) : HexDigits[k] = b
  IN  IF i <= 16 THEN i - 1 ELSE i - 7

RECURSIVE Split(_, _)
\* bytes.split(sep) for a one-byte separator.
Split(bs, sep) ==
  LET i == Find(bs, sep)
  IN  IF i = 0 THEN << bs >>
      ELSE << SubSeq(bs, 1, i - 1) >> \o Split(SubSeq(bs, i + 1, Len(bs)), sep)

\* One item of bits[1:]: _hextobyte[item[:2]] + item[2:], or on KeyError
\* b'%' + item.
UnquoteItem(item) ==
  IF Len(item) >= 2 /\ IsHex(item[1]) /\ IsHex(item[2])
  THEN << 16 * HexVal(item[1]) + HexVal(item[2]) >> \o SubSeq(item, 3, Len(item))
  ELSE << Percent >> \o item

\* unquote_to_bytes(string) for a str that encodes as UTF-8.
UnquoteToBytes(str) ==
  LET bits == Split(Utf8Encode(str), Percent)
  IN  bits[1] \o Concat([i \in 1..(Len(bits) - 1) |-> UnquoteItem(bits[i + 1])])

(***************************************************************************)
(* base64.b64decode (validate=False) and base64.b64encode                  *)
(***************************************************************************)

Base64Alphabet ==
  Txt(<< "A", "B", "C", "D", "E", "F", "G", "H", "I", "J", "K", "L", "M",
        "N", "O", "P", "Q", "R", "S", "T", "U", "V", "W", "X", "Y", "Z",
        "a", "b", "c", "d", "e", "f", "g", "h", "i", "j", "k", "l", "m",
        "n", "o", "p", "q", "r", "s", "t", "u", "v", "w", "x", "y", "z",
        "0", "1", "2", "3", "4", "5", "6", "7", "8", "9", "+", "/" >>)

IsB64(ch) == \E i \in 1..64 : Base64Alphabet[i] = ch

\* table_a2b_base64[ch] for a character of the alphabet.
B64Val(ch) == (CHOOSE i \in 1..64 : Base64Alphabet[i] = ch) - 1

B64Error == [ok |-> FALSE, bytes |-> << >>]

RECURSIVE A2bBase64(_, _, _, _, _, _)
\* binascii.a2b_base64 in non-strict mode, from character i on: characters
\* outside the alphabet are skipped, a completed pad sequence ends the input,
\* and a quad left incomplete at the end is an error.
A2bBase64(data, i, quad_pos, leftchar, pads, bin_data) ==
  IF i > Len(data)
  THEN IF quad_pos # 0 THEN B64Error ELSE [ok |-> TRUE, bytes |-> bin_data]
  ELSE LET ch == data[i]
       IN  IF ch = Pad
           THEN IF quad_pos >= 2 /\ quad_pos + pads + 1 >= 4
                THEN [ok |-> TRUE, bytes |-> bin_data]
                ELSE A2bBase64(data, i + 1, quad_pos, leftchar,
                               IF quad_pos >= 2 THEN pads + 1 ELSE pads, bin_data)
           ELSE IF ~IsB64(ch)
           THEN A2bBase64(data, i + 1, quad_pos, leftchar, pads, bin_data)
           ELSE LET v == B64Val(ch)
                IN  CASE quad_pos = 0 ->
                           A2bBase64(data, i + 1, 1, v, 0, bin_data)
                      [] quad_pos = 1 ->
                           A2bBase64(data, i + 1, 2, v % 16, 0,
                                     Append(bin_data, leftchar * 4 + (v \div 16)))
                      [] quad_pos = 2 ->
                           A2bBase64(data, i + 1, 3, v % 4, 0,
                                     Append(bin_data, leftchar * 16 + (v \div 4)))
                      [] quad_pos = 3 ->
                           A2bBase64(data, i + 1, 0, 0, 0,
                                     Append(bin_data, leftchar * 64 + v))

\* base64.b64decode(s) for a str: ValueError unless s is ASCII, then
\* binascii.a2b_base64; binascii.Error is a ValueError.
B64Decode(str) ==
  IF ~IsAscii(str) THEN B64Error ELSE A2bBase64(str, 1, 0, 0, 0, << >>)

RECURSIVE B64Encode(_)
\* base64.b64encode(b).decode(): standard alphabet, '=' padding kept.
B64Encode(b) ==
  LET E(v) == Base64Alphabet[v + 1]
  IN  IF Len(b) = 0 THEN << >>
      ELSE IF Len(b) = 1
      THEN << E(b[1] \div 4), E((b[1] % 4) * 16), Pad, Pad >>
      ELSE IF Len(b) = 2
      THEN << E(b[1] \div 4), E((b[1] % 4) * 16 + (b[2] \div 16)),
              E((b[2] % 16) * 4), Pad >>
      ELSE << E(b[1] \div 4), E((b[1] % 4) * 16 + (b[2] \div 16)),
              E((b[2] % 16) * 4 + (b[3] \div 64)), E(b[3] % 64) >>
           \o B64Encode(SubSeq(b, 4, Len(b)))

(***************************************************************************)
(* parse                                                                   *)
(***************************************************************************)

\* An outcome of parse: a ParsedDataURI (kind "ok") or the exception raised.
Raise(exc) == [kind |-> exc, media_type |-> None, data |-> None, uri |-> None]

ParsedDataURI(media_type, data, u) ==
  [kind |-> "ok", media_type |-> media_type, data |-> data, uri |-> u]

\* A slip: len(raw_data) % 4 pad characters.
MissingPaddingUnnegated(raw_data) == Len(raw_data) % 4

\* '=' * (-len(raw_data) % 4)
MissingPadding(raw_data) == (0 - Len(raw_data)) % 4

Pads(n) == [i \in 1..n |-> Pad]

\* The base64 branch of parse.
DecodeBase64(raw_data) ==
  B64Decode(raw_data \o Pads(MissingPadding(raw_data)))

\* A slip: the empty media type is returned as it is.
MediaTypeKept(media_type) == media_type

\* if not media_type: media_type = None
MediaTypeOrNone(media_type) == IF media_type = << >> THEN None ELSE media_type

\* A slip: only the empty remainder is rejected.
NoSeparatorEmptyOnly(rest) == rest = << >>

\* not s or ',' not in s
NoSeparator(rest) == rest = << >> \/ Find(rest, Comma) = 0

parse(u) ==
  IF ~StartsWith(u, DataPrefix) THEN Raise("DataURIError")
  ELSE
    LET rest == SubSeq(u, 6, Len(u))
    IN  IF NoSeparator(rest) THEN Raise("DataURIError")
        ELSE
          LET part == Partition(rest, Comma)
              raw_data == part[2]
              is_base64_encoded == EndsWith(part[1], Base64Suffix)
          IN  IF is_base64_encoded
              THEN LET media_type == SubSeq(part[1], 1, Len(part[1]) - 7)
                       dec == DecodeBase64(raw_data)
                   IN  IF ~dec.ok THEN Raise("DataURIError")
                       ELSE ParsedDataURI(MediaTypeOrNone(media_type),
                                          dec.bytes, u)
              ELSE IF Utf8Fails(raw_data) THEN Raise("UnicodeEncodeError")
                   ELSE ParsedDataURI(MediaTypeOrNone(part[1]),
                                      UnquoteToBytes(raw_data), u)

(***************************************************************************)
(* discover                                                                *)
(***************************************************************************)

\* The character class of RE_DATA_URI: unreserved, reserved and percent.
UriChars ==
  (65..90) \cup (97..122) \cup (48..57)
  \cup { Ord("-"), Ord("_"), Ord("."), Ord("~") }
  \cup { Ord(":"), Ord("/"), Ord("?"), Ord("#"), Ord("["), Ord("]"), Ord("@"),
         Ord("!"), Ord("$"), Ord("&"), Ord("'"), Ord("("), Ord(")"), Ord("*"),
         Ord("+"), Ord(","), Ord(";"), Ord("=") }
  \cup { Percent }

NoMatch == << 0, 0 >>

\* RE_DATA_URI.search(str, pos): the leftmost match starting at pos or later,
\* as <<first, last>>; the + is greedy, so the match runs to the end of the
\* run of class characters.
Search(str, pos) ==
  LET starts == { i \in pos..(Len(str) - 5) :
                    /\ SubSeq(str, i, i + 4) = DataPrefix
                    /\ str[i + 5] \in UriChars }
  IN  IF starts = {} THEN NoMatch
      ELSE LET i == CHOOSE a \in starts : \A b \in starts : a <= b
               j == CHOOSE e \in (i + 5)..Len(str) :
                      /\ \A k \in (i + 5)..e : str[k] \in UriChars
                      /\ e = Len(str) \/ str[e + 1] \notin UriChars
           IN  << i, j >>

\* A slip: the first match that fails to parse ends the iteration.
ResumeStopOnError(str, pos) ==
  LET m == Search(str, pos)
  IN  IF m = NoMatch
      THEN [state |-> "done", pos |-> pos, value |-> Raise("StopIteration")]
      ELSE LET r == parse(SubSeq(str, m[1], m[2]))
           IN  IF r.kind = "ok"
               THEN [state |-> "suspended", pos |-> m[2] + 1, value |-> r]
               ELSE [state |-> "done", pos |-> m[2] + 1,
                     value |-> Raise("StopIteration")]

RECURSIVE Resume(_, _)
\* One next() on the generator of discover(str) suspended with the scan at
\* pos: runs the for loop to its next yield, to exhaustion, or to an
\* exception other than DataURIError, which leaves the generator.
Resume(str, pos) ==
  LET m == Search(str, pos)
  IN  IF m = NoMatch
      THEN [state |-> "done", pos |-> pos, value |-> Raise("StopIteration")]
      ELSE LET r == parse(SubSeq(str, m[1], m[2]))
           IN  IF r.kind = "ok"
               THEN [state |-> "suspended", pos |-> m[2] + 1, value |-> r]
               ELSE IF r.kind = "DataURIError"
               THEN Resume(str, m[2] + 1)
               ELSE [state |-> "raised", pos |-> m[2] + 1, value |-> r]

\* discover(str): a generator that has not run yet.
discover(str) == [state |-> "created", pos |-> 1]

NoGen == [state |-> "none", pos |-> 0]

(***************************************************************************)
(* build                                                                   *)
(***************************************************************************)

BuildRaise(exc) == [kind |-> exc, text |-> None]

\* A slip: the base64 flag is left out.
FormatUnflagged(mime, data64) == DataPrefix \o mime \o << Comma >> \o data64

\* 'data:{};base64,{}'.format(mime, data64)
Format(mime, data64) ==
  DataPrefix \o mime \o Base64Suffix \o << Comma >> \o data64

\* A slip: no fallback on ImportError, no MIME type is determined.
FileMimeNoFallback(src) == IF src.magic_installed THEN src.sniffed ELSE None

\* The file branch: magic.from_file, or mimetypes.guess_type on ImportError.
FileMime(src) == IF src.magic_installed THEN src.sniffed ELSE src.guessed

\* build(fp).  src.kind is "file" for a str or Path naming an existing file
\* with content src.content, "bytes" for a bytes buffer src.content, "str" for
\* a str that names no file.  src.magic_installed says whether import magic
\* succeeds, src.sniffed is what magic then reports and src.guessed what
\* mimetypes.guess_type reports for the name.
build(src) ==
  IF src.kind = "file"
  THEN LET mime == FileMime(src)
       IN  IF mime = None THEN BuildRaise("DataURIError")
           ELSE [kind |-> "ok", text |-> Format(mime, B64Encode(src.content))]
  ELSE IF ~src.magic_installed THEN BuildRaise("ImportError")
  ELSE IF src.kind = "str" THEN BuildRaise("TypeError")
  ELSE [kind |-> "ok", text |-> Format(src.sniffed, B64Encode(src.content))]

(***************************************************************************)
(* Inputs                                                                  *)
(***************************************************************************)

MaxPayloadLen == 3
MaxBytes == 3
MaxSegs == 4

TextPlain == Txt(<< "t", "e", "x", "t", "/", "p", "l", "a", "i", "n" >>)
ImagePng == Txt(<< "i", "m", "a", "g", "e", "/", "p", "n", "g" >>)

\* Payload characters: percent, a hex digit, a letter that is no hex digit,
\* the pad, a character outside the base64 alphabet, a comma, a non-ASCII
\* character and a lone surrogate.
PayloadChars ==
  { Percent, Ord("4"), Ord("z"), Pad, Ord("!"), Comma, EAcute, Surrogate }

Payloads == UNION { [1..n -> PayloadChars] : n \in 0..MaxPayloadLen }

MediaParts == { << >>, TextPlain, Base64Suffix, TextPlain \o Base64Suffix }

ByteVals == { 0, 104, 255 }

ByteSeqs == UNION { [1..n -> ByteVals] : n \in 0..MaxBytes }

Mimes == { TextPlain, ImagePng }

\* The text after the last character of str that is not '=' is dropped.
RECURSIVE StripPadding(_)
StripPadding(str) ==
  IF str # << >> /\ str[Len(str)] = Pad
  THEN StripPadding(SubSeq(str, 1, Len(str) - 1))
  ELSE str

Padded(b, m) == Format(m, B64Encode(b))
Unpadded(b, m) == Format(m, StripPadding(B64Encode(b)))

Examples ==
  { Txt(<< "n", "o", "t", "-", "a", "-", "u", "r", "i" >>),
    Txt(<< "d", "a", "t", "a", ":", "n", "o", "v", "a", "l", "u", "e" >>),
    Txt(<< "d", "a", "t", "a", ":", "t", "e", "x", "t", "/", "p", "l", "a", "i", "n", ",", "h", "e", "l", "l", "o" >>),
    Txt(<< "d", "a", "t", "a", ":", ";", "b", "a", "s", "e", "6", "4", ",", "a", "G", "V", "s", "b", "G", "8", "=" >>),
    Txt(<< "d", "a", "t", "a", ":", "t", "e", "x", "t", "/", "p", "l", "a", "i", "n", ";", "b", "a", "s", "e", "6", "4", ",", "a", "G", "V", "s", "b", "G", "8" >>),
    Txt(<< "d", "a", "t", "a", ":", "t", "e", "x", "t", "/", "p", "l", "a", "i", "n", ";", "b", "a", "s", "e", "6", "4", ",", "a", "G", "V", "s", "b", "G", "8", "=" >>),
    Txt(<< "d", "a", "t", "a", ":", "t", "e", "x", "t", "/", "p", "l", "a", "i", "n", ";", "b", "a", "s", "e", "6", "4", ",", "!", "!", "!", "i", "n", "v", "a", "l", "i", "d", "!", "!", "!" >>),
    Txt(<< "d", "a", "t", "a", ":", ",", "%", "z", "z" >>),
    Txt(<< "d", "a", "t", "a", ":", ",", "%", "4", "a", "%", "4", "F", "%" >>),
    Txt(<< "d", "a", "t", "a", ":", "t", "e", "x", "t", "/", "p", "l", "a", "i", "n", ",", "a", ",", "b", ",", "c" >>) }

BadPrefixes ==
  { << >>, Txt(<< "d", "a", "t", ":" >>), Txt(<< "D", "a", "t", "a", ":" >>),
    Txt(<< " ", "d", "a", "t", "a", ":" >>) }

ParseInputs ==
  { DataPrefix \o m \o << Comma >> \o p : m \in MediaParts, p \in Payloads }
  \cup { DataPrefix \o m : m \in MediaParts }
  \cup { pre \o m \o << Comma >> \o p :
           pre \in BadPrefixes, m \in MediaParts, p \in { << >>, Txt(<< "z" >>) } }
  \cup { Padded(b, m) : b \in ByteSeqs, m \in Mimes }
  \cup { Unpadded(b, m) : b \in ByteSeqs, m \in Mimes }
  \cup Examples

BuildSources ==
  [ kind : { "file", "bytes", "str" }, content : ByteSeqs,
    magic_installed : BOOLEAN, sniffed : Mimes, guessed : Mimes \cup { None } ]

Segments ==
  { DataPrefix, DataPrefix \o << Comma >>, Txt(<< " " >>), Txt(<< "z" >>),
    Base64Suffix \o << Comma >> }

SpecExampleText ==
  Txt(<< "p", "r", "e", "f", "i", "x", " ", "d", "a", "t", "a", ":", "t", "e", "x", "t", "/", "p", "l", "a", "i", "n", ",", "o", "k", " ",
         "a", "n", "d", " ",
         "d", "a", "t", "a", ":", "b", "a", "d", ";", "b", "a", "s", "e", "6", "4", ",", "!", "!", "!", " ", "s", "u", "f", "f", "i", "x" >>)

DiscoverTexts ==
  { Concat(segs) : segs \in UNION { [1..n -> Segments] : n \in 0..MaxSegs } }
  \cup { SpecExampleText,
         DataPrefix \o << Comma, EAcute >> \o DataPrefix \o << Comma, Ord("z") >> }

Consumers == { 1, 2 }

(***************************************************************************)
(* The state machine: one call of parse, parse applied to the text build   *)
(* returns, and two consumers each iterating discover(s) at its own pace.  *)
(***************************************************************************)

NoResult == Raise("none")
NoBuild == BuildRaise("none")
NoSource ==
  [ kind |-> "none", content |-> << >>, magic_installed |-> FALSE,
    sniffed |-> None, guessed |-> None ]

Init ==
  /\ result = NoResult
  /\ built = NoBuild
  /\ gen = [c \in Consumers |-> NoGen]
  /\ out = [c \in Consumers |-> << >>]
  /\ \/ pc = "parse" /\ uri \in ParseInputs /\ fp = NoSource /\ s = << >>
     \/ pc = "build" /\ uri = None /\ fp \in BuildSources /\ s = << >>
     \/ pc = "discover" /\ uri = None /\ fp = NoSource /\ s \in DiscoverTexts

Parse ==
  /\ pc = "parse"
  /\ result' = parse(uri)
  /\ pc' = "parsed"
  /\ UNCHANGED << uri, fp, built, s, gen, out >>

Build ==
  /\ pc = "build"
  /\ built' = build(fp)
  /\ pc' = "built"
  /\ UNCHANGED << uri, result, fp, s, gen, out >>

ParseBuilt ==
  /\ pc = "built"
  /\ built.kind = "ok"
  /\ uri' = built.text
  /\ result' = parse(built.text)
  /\ pc' = "parsed"
  /\ UNCHANGED << fp, built, s, gen, out >>

Discover(c) ==
  /\ pc = "discover"
  /\ gen[c] = NoGen
  /\ gen' = [gen EXCEPT ![c] = discover(s)]
  /\ UNCHANGED << pc, uri, result, fp, built, s, out >>

NextItem(c) ==
  /\ gen[c].state \in { "created", "suspended" }
  /\ LET r == Resume(s, gen[c].pos)
     IN  /\ gen' = [gen EXCEPT ![c] = [state |-> r.state, pos |-> r.pos]]
         /\ out' = [out EXCEPT ![c] =
                      IF r.state = "suspended" THEN Append(@, r.value) ELSE @]
  /\ UNCHANGED << pc, uri, result, fp, built, s >>

Next ==
  \/ Parse
  \/ Build
  \/ ParseBuilt
  \/ \E c \in Consumers : Discover(c)
  \/ \E c \in Consumers : NextItem(c)

Spec == Init /\ [][Next]_vars

(***************************************************************************)
(* Properties                                                              *)
(***************************************************************************)

\* The first five characters of u read "data:".
BeginsWithData(u) == Len(u) >= 5 /\ \A i \in 1..5 : u[i] = DataPrefix[i]

\* The positions of the commas after the prefix.
Commas(u) == { i \in 6..Len(u) : u[i] = Comma }

FirstComma(u) == CHOOSE i \in Commas(u) : \A j \in Commas(u) : i <= j

WellFormed(u) == BeginsWithData(u) /\ Commas(u) # {}

\* The text between the prefix and the first comma, and the text after it.
MediaPartOf(u) == [i \in 1..(FirstComma(u) - 6) |-> u[i + 5]]
PayloadOf(u) == [i \in 1..(Len(u) - FirstComma(u)) |-> u[FirstComma(u) + i]]

\* The media part ends with ";base64".
Flagged(u) ==
  LET m == MediaPartOf(u)
  IN  Len(m) >= 7 /\ \A i \in 1..7 : m[Len(m) - 7 + i] = Base64Suffix[i]

DeclaredType(u) ==
  LET m == MediaPartOf(u)
      d == IF Flagged(u) THEN [i \in 1..(Len(m) - 7) |-> m[i]] ELSE m
  IN  IF Len(d) = 0 THEN None ELSE d

InBase64Alphabet(ch) ==
  ch \in (65..90) \cup (97..122) \cup (48..57) \cup { 43, 47 }

\* Standard base64 text: whole quads of alphabet characters, the last quad
\* ending with at most two pad characters.
StrictBase64(str) ==
  /\ Len(str) % 4 = 0
  /\ \E k \in 0..2 :
       /\ k <= Len(str)
       /\ \A i \in 1..Len(str) :
            IF i > Len(str) - k THEN str[i] = 61 ELSE InBase64Alphabet(str[i])

PaddedToQuad(str) == str \o [i \in 1..((4 - (Len(str) % 4)) % 4) |-> 61]

HexDigitValue(b) ==
  IF b \in 48..57 THEN b - 48
  ELSE IF b \in 65..70 THEN b - 55
  ELSE IF b \in 97..102 THEN b - 87
  ELSE -1

RECURSIVE LenientDecode(_, _)
\* Left to right from byte i: %XX with two hexadecimal digits becomes the byte
\* XX, every other byte stays.
LenientDecode(bs, i) ==
  IF i > Len(bs) THEN << >>
  ELSE IF /\ bs[i] = 37
          /\ i + 2 <= Len(bs)
          /\ HexDigitValue(bs[i + 1]) >= 0
          /\ HexDigitValue(bs[i + 2]) >= 0
  THEN << 16 * HexDigitValue(bs[i + 1]) + HexDigitValue(bs[i + 2]) >>
       \o LenientDecode(bs, i + 3)
  ELSE << bs[i] >> \o LenientDecode(bs, i + 1)

\* C1: parse raises DataURIError and returns nothing for a text that does not
\* begin with "data:" and for a text whose remainder after the prefix is
\* empty or holds no comma.
C1_MalformedRejected ==
  pc = "parsed" /\ ~WellFormed(uri) => result = Raise("DataURIError")

C1_Witness ==
  /\ pc = "parsed"
  /\ BeginsWithData(uri) /\ Len(uri) > 5 /\ Commas(uri) = {}
  /\ result.kind = "DataURIError"

\* C2: parse raises DataURIError whenever the media part ends with ";base64"
\* and the payload, padded with "=" to a multiple of 4, is not standard
\* base64 text.
C2_InvalidBase64Rejected ==
  ( /\ pc = "parsed"
    /\ WellFormed(uri)
    /\ Flagged(uri)
    /\ ~StrictBase64(PaddedToQuad(PayloadOf(uri))) )
  => result.kind = "DataURIError"

\* C3: for a text with the prefix, a comma and no base64 flag, parse returns,
\* and the data are the payload with every well-formed %XX replaced by the
\* byte XX and every other character kept.
C3_PercentFormNeverFails ==
  (pc = "parsed" /\ WellFormed(uri) /\ ~Flagged(uri))
  => /\ result.kind = "ok"
     /\ result.data = LenientDecode(Utf8Encode(PayloadOf(uri)), 1)

\* C4: parse splits at the first comma only: the media type is the text
\* before it, the payload decoded is all the text after it, and an unflagged
\* payload without a percent character is returned as its bytes.
C4_SplitAtFirstComma ==
  (pc = "parsed" /\ result.kind = "ok")
  => /\ WellFormed(uri)
     /\ result.media_type = DeclaredType(uri)
     /\ Flagged(uri) => result.data = DecodeBase64(PayloadOf(uri)).bytes
     /\ (~Flagged(uri) /\ \A i \in 1..Len(PayloadOf(uri)) : PayloadOf(uri)[i] # 37)
        => result.data = Utf8Encode(PayloadOf(uri))

C4_Witness ==
  /\ pc = "parsed"
  /\ result.kind = "ok"
  /\ ~Flagged(uri)
  /\ Cardinality(Commas(uri)) >= 3
  /\ result.data = Txt(<< "a", ",", "b", ",", "c" >>)

\* The built text of every byte sequence and media type, without and with its
\* padding.
PaddingPairs ==
  { << Unpadded(b, m), Padded(b, m) >> : b \in ByteSeqs, m \in Mimes }

\* C5: a base64 URI whose padding was removed parses to the same media type
\* and data as the URI with the padding kept, and parse appends
\* (4 - len(payload) % 4) % 4 pad characters.
C5_PaddingRestored ==
  pc = "parsed" =>
    /\ (WellFormed(uri) /\ Flagged(uri))
       => MissingPadding(PayloadOf(uri)) = (4 - (Len(PayloadOf(uri)) % 4)) % 4
    /\ \A pr \in PaddingPairs :
         uri = pr[1] =>
           /\ result.kind = "ok"
           /\ parse(pr[2]).kind = "ok"
           /\ result.media_type = parse(pr[2]).media_type
           /\ result.data = parse(pr[2]).data

C5_Witness ==
  /\ pc = "parsed"
  /\ \E pr \in PaddingPairs : uri = pr[1] /\ Len(pr[2]) = Len(pr[1]) + 2
  /\ result.kind = "ok"
  /\ Len(result.data) = 1

\* The media type the Builder resolves for a source.
ResolvedMime(src) ==
  IF src.kind = "file" /\ ~src.magic_installed THEN src.guessed ELSE src.sniffed

\* C6: parsing the text build returns gives back the bytes and the media type
\* the Builder resolved.
C6_RoundTrip ==
  (pc = "parsed" /\ built.kind = "ok")
  => /\ result.kind = "ok"
     /\ result.data = fp.content
     /\ result.media_type = ResolvedMime(fp)

C6_Witness ==
  /\ pc = "parsed"
  /\ built.kind = "ok"
  /\ fp.kind = "bytes"
  /\ Len(fp.content) = 2
  /\ result.data = fp.content

\* The characters the grammar allows after "data:": unreserved, reserved and
\* percent.
Eligible(ch) ==
  \/ ch \in (65..90) \cup (97..122) \cup (48..57)
  \/ ch \in { 45, 95, 46, 126 }
  \/ ch \in { 58, 47, 63, 35, 91, 93, 64, 33, 36, 38, 39, 40, 41, 42, 43, 44,
              59, 61 }
  \/ ch = 37

DataAt(str, i) == i + 4 <= Len(str) /\ \A k \in 1..5 : str[i + k - 1] = DataPrefix[k]

\* Where the non-overlapping leftmost matches start: at a "data:" followed by
\* an eligible character that no earlier "data:" reaches through eligible
\* characters.
MatchStarts(str) ==
  { i \in 1..(Len(str) - 5) :
      /\ DataAt(str, i)
      /\ Eligible(str[i + 5])
      /\ ~\E k \in 1..(i - 1) :
            DataAt(str, k) /\ \A j \in k..(i - 1) : Eligible(str[j]) }

\* The last character of the maximal match that starts at i.
MatchEnd(str, i) ==
  CHOOSE e \in (i + 5)..Len(str) :
    /\ \A j \in (i + 5)..e : Eligible(str[j])
    /\ e = Len(str) \/ ~Eligible(str[e + 1])

RECURSIVE ParsedMatches(_, _)
\* The parse results of the matches that start in starts, in the order of
\* their positions, without the matches parse rejects.
ParsedMatches(str, starts) ==
  IF starts = {} THEN << >>
  ELSE LET i == CHOOSE a \in starts : \A b \in starts : a <= b
           r == parse([k \in 1..(MatchEnd(str, i) - i + 1) |-> str[i + k - 1]])
       IN  (IF r.kind = "ok" THEN << r >> ELSE << >>)
           \o ParsedMatches(str, starts \ { i })

\* C7: whatever the pace of a consumer, what discover(s) has yielded to it is
\* a prefix of the parse results of the matches on which parse succeeds, in
\* the order of their positions, and all of them once the generator is
\* exhausted; a match parse rejects ends no iteration.
C7_DiscoverYieldsParsedMatches ==
  LET e == ParsedMatches(s, MatchStarts(s))
  IN  \A c \in Consumers :
        /\ gen[c].state # "raised"
        /\ gen[c].pos <= Len(s) + 1
        /\ Len(out[c]) <= Len(e)
        /\ \A i \in 1..Len(out[c]) : out[c][i] = e[i]
        /\ gen[c].state = "done" => out[c] = e
        /\ gen[c].state \in { "none", "created" } => out[c] = << >>

C7_Witness ==
  /\ gen[1].state = "done"
  /\ gen[2].state = "suspended"
  /\ Cardinality(MatchStarts(s)) = 2
  /\ Len(out[1]) = 1
  /\ Len(out[2]) = 1
  /\ s # SpecExampleText

\* C8: discover skips the candidate "data:bad;base64,!!!": for the text of
\* the specification's example it yields the result for "data:text/plain,ok"
\* and nothing else.
C8_InvalidCandidateSkipped ==
  \A c \in Consumers :
    (s = SpecExampleText /\ gen[c].state = "done")
    => out[c] = << [ kind |-> "ok", media_type |-> TextPlain,
                     data |-> Txt(<< "o", "k" >>),
                     uri |-> Txt(<< "d", "a", "t", "a", ":", "t", "e", "x", "t", "/", "p", "l", "a", "i", "n", ",", "o", "k" >>) ] >>

IsBytes(d) == d # None /\ \A i \in 1..Len(d) : d[i] \in 0..255

\* r is a ParsedDataURI made from text.
WellShaped(r, text) ==
  /\ r.kind = "ok"
  /\ IsBytes(r.data)
  /\ r.media_type # << >>
  /\ r.media_type = None \/ \A i \in 1..Len(r.media_type) : r.media_type[i] >= 0
  /\ r.uri = text

\* C9: a result parse returns, and so an element discover yields, has data
\* that are bytes, a media type that is absent or not empty, and the input
\* text as its uri.
C9_ResultWellShaped ==
  /\ (pc = "parsed" /\ result.kind = "ok") => WellShaped(result, uri)
  /\ \A c \in Consumers : \A i \in 1..Len(out[c]) :
       /\ WellShaped(out[c][i], out[c][i].uri)
       /\ \E a \in 1..Len(s) :
            /\ DataAt(s, a)
            /\ a + Len(out[c][i].uri) - 1 <= Len(s)
            /\ \A k \in 1..Len(out[c][i].uri) : out[c][i].uri[k] = s[a + k - 1]

C9_Witness ==
  /\ pc = "parsed"
  /\ result.kind = "ok"
  /\ WellFormed(uri)
  /\ MediaPartOf(uri) = Base64Suffix
  /\ result.media_type = None
  /\ Len(result.data) = 1

\* The text build returns for media type mime and bytes b.
IsBuiltText(text, mime, b) ==
  /\ Len(text) = 13 + Len(mime) + 4 * ((Len(b) + 2) \div 3)
  /\ \A i \in 1..5 : text[i] = DataPrefix[i]
  /\ \A i \in 1..Len(mime) : text[5 + i] = mime[i]
  /\ \A i \in 1..7 : text[5 + Len(mime) + i] = Base64Suffix[i]
  /\ text[13 + Len(mime)] = 44
  /\ LET e == [i \in 1..(Len(text) - 13 - Len(mime)) |-> text[13 + Len(mime) + i]]
     IN  StrictBase64(e) /\ B64Decode(e) = [ok |-> TRUE, bytes |-> b]

\* C10: for an existing file build falls back on the guess from the name when
\* the sniffing collaborator is unavailable and raises DataURIError exactly
\* when the path taken determined no MIME type; for any other source an
\* unavailable collaborator is an ImportError and nothing is a DataURIError;
\* a text returned is data:<mime>;base64,<padded base64 of the bytes>.
C10_BuildOutcomes ==
  built.kind # "none" =>
    IF fp.kind = "file"
    THEN LET mime == IF fp.magic_installed THEN fp.sniffed ELSE fp.guessed
         IN  /\ built.kind = "DataURIError" <=> mime = None
             /\ mime # None =>
                  built.kind = "ok" /\ IsBuiltText(built.text, mime, fp.content)
    ELSE /\ ~fp.magic_installed => built.kind = "ImportError"
         /\ built.kind # "DataURIError"
         /\ built.kind = "ok" => IsBuiltText(built.text, fp.sniffed, fp.content)

C10_Witness ==
  /\ pc = "built"
  /\ fp.kind = "file"
  /\ ~fp.magic_installed
  /\ fp.guessed # None
  /\ built.kind = "ok"
  /\ Len(fp.content) = 2

====
